---- MODULE Spec2Model ----
(***************************************************************************)
(* TekeTeke backend (src/server.js): the settlement path                   *)
(* (initiate -> handleMpesaCallback -> ledger), the daily SACCO-fee gate,   *)
(* the fee split, the dev auto-settle of the status endpoint and the USSD   *)
(* code pool.  The Supabase tables are the state; every awaited storage     *)
(* call of a handler is one atomic step, so handlers interleave exactly at  *)
(* their awaits.                                                            *)
(*                                                                          *)
(* Units: an input amount is an integer number of mills (1/1000 KES), a     *)
(* stored amount an integer number of cents, a percentage an integer        *)
(* number of hundredths of a percent (numeric(5,2)).  The clock counts      *)
(* ticks of TickMs milliseconds.                                            *)
(***************************************************************************)
EXTENDS Integers, Sequences, FiniteSets, TLC

NULL == "null"   \* an absent text value
NOAMOUNT == -1    \* an absent number
NEVER == -1       \* an absent timestamp

\* ---------------------------------------------------------------- bounds
MaxTime      == 2      \* the clock stops here
TicksPerDay  == 2      \* ticks in a (scaled-down) calendar day
MaxDeliver   == 2      \* callbacks posted by the payment network
MaxBase      == 1      \* the pool holds the bases 001 .. MaxBase and the scenario base
MaxPoolCalls == 3      \* code-pool requests
MaxOverlap   == 2      \* code-pool requests when they may overlap
MaxRootCalls == 2      \* calls of digitalRoot on one base

\* ------------------------------------------------------ program constants
TickMs            == 2500
AUTOPAY_AGE_MS    == 3000
CALLBACK_DELAY_MS == 5000
DEFAULT_FLAT_FEE  == 250
DEFAULT_SAVINGS   == 500
DEFAULT_DAILY_FEE == 5000
DEFAULT_LOAN      == 0
SNAPSHOT_FEE      == 250
TX_DEFAULT_FEE    == 250

\* ------------------------------------------------------------ input sets
Refs     == {"X1", "X2"}
Saccos   == {"s1"}
Matatus  == {"m1"}
Slots    == {1, 2}

\* the row of sacco_settings an administrator may store
PolicyRows ==
  { [fare_fee_flat_kes |-> 0, savings_percent |-> 0,
     sacco_daily_fee_kes |-> 0, loan_repay_percent |-> 1000] }

\* well-formed confirmations for one vehicle
VehiclePayloads ==
  [checkout_id : Refs, success : BOOLEAN, amount : {40000},
   sacco_id : Saccos, matatu_id : Matatus, receipt : {NULL}]

\* well-formed confirmations, with or without a vehicle
ValidPayloads ==
  [checkout_id : Refs, success : BOOLEAN, amount : {40000},
   sacco_id : Saccos, matatu_id : Matatus \cup {NULL}, receipt : {NULL}]

NoPayload ==
  [checkout_id |-> NULL, success |-> FALSE, amount |-> NOAMOUNT,
   sacco_id |-> NULL, matatu_id |-> NULL, receipt |-> NULL]

\* a well-formed confirmation and what a caller may leave out of it: each of
\* the three required fields in turn, all of them, and an amount of 0
FullPayload ==
  [checkout_id |-> "X1", success |-> TRUE, amount |-> 40000,
   sacco_id |-> "s1", matatu_id |-> "m1", receipt |-> NULL]

EdgePayloads ==
  { FullPayload,
    [FullPayload EXCEPT !.checkout_id = NULL],
    [FullPayload EXCEPT !.amount = NOAMOUNT],
    [FullPayload EXCEPT !.sacco_id = NULL],
    [FullPayload EXCEPT !.amount = 0, !.checkout_id = "X2"],
    NoPayload }

\* ------------------------------------------------------------ pure helpers
\* Math.round(x * 100) with x = num / den, in cents (Math.round is floor(y + 1/2))
Round2Frac(num, den) == (200 * num + den) \div (2 * den)

\* amounts (mills) whose double product with 100 falls just below the half
\* the decimal numeral names: 1.005 * 100 = 100.49999999999999
AmountShortOfHalf == { 1005 }

\* round2 of an amount given in mills; Number(n || 0) maps an absent value to 0
round2(n) ==
  IF n = NOAMOUNT THEN 0
  ELSE Round2Frac(n, 1000) - (IF n \in AmountShortOfHalf THEN 1 ELSE 0)

\* (percent, fare in cents) pairs whose double product falls just below the
\* half the decimal numerals name: (5 / 100) * 0.7 * 100 = 3.4999999999999996
PercentShortOfHalf == { << 500, 70 >> }

\* round2((pct / 100) * fare): pct in hundredths of a percent, fare in cents
round2Percent(pct, fare) ==
  (pct * fare + 5000) \div 10000
    - (IF << pct, fare >> \in PercentShortOfHalf THEN 1 ELSE 0)

\* round2 of a value that is already a whole number of cents
round2Cents(c) == IF c = NOAMOUNT THEN 0 ELSE Round2Frac(c, 100)

startOfDay(t) == (t \div TicksPerDay) * TicksPerDay
endOfDay(t)   == startOfDay(t) + TicksPerDay
DayOf(t)      == t \div TicksPerDay

DefaultRules ==
  [fare_fee_flat_kes |-> DEFAULT_FLAT_FEE, savings_percent |-> DEFAULT_SAVINGS,
   sacco_daily_fee_kes |-> DEFAULT_DAILY_FEE, loan_repay_percent |-> DEFAULT_LOAN]

Item(t, a) == [type |-> t, amount_kes |-> a]

Always_IfPositive(t, a) == IF a > 0 THEN << Item(t, a) >> ELSE << >>

\* parts.push(...) without a test
Always(t, a) == << Item(t, a) >>

Optional_AboveOneCent(t, a) == IF a > 1 THEN << Item(t, a) >> ELSE << >>

Optional_NonNegative(t, a) == IF a >= 0 THEN << Item(t, a) >> ELSE << >>

\* if (x > 0) parts.push(...)
Optional(t, a) == IF a > 0 THEN << Item(t, a) >> ELSE << >>

saccoDailyOf_FlagIgnored(rules, takeDailyFee) ==
  round2Cents(rules.sacco_daily_fee_kes)

saccoDailyOf(rules, takeDailyFee) ==
  IF takeDailyFee THEN round2Cents(rules.sacco_daily_fee_kes) ELSE 0

computeSplits_SavingsBeforeDaily(amount, rules, takeDailyFee) ==
  LET fare       == round2(amount)
      serviceFee == round2Cents(rules.fare_fee_flat_kes)
      savings    == round2Percent(rules.savings_percent, fare)
      loanRepay  == round2Percent(rules.loan_repay_percent, fare)
      saccoDaily == saccoDailyOf(rules, takeDailyFee)
  IN  Always("FARE", fare) \o Always("SERVICE_FEE", serviceFee)
      \o Optional("SAVINGS", savings)
      \o Optional("SACCO_FEE", saccoDaily)
      \o Optional("LOAN_REPAY", loanRepay)

computeSplits(amount, rules, takeDailyFee) ==
  LET fare       == round2(amount)
      serviceFee == round2Cents(rules.fare_fee_flat_kes)
      savings    == round2Percent(rules.savings_percent, fare)
      loanRepay  == round2Percent(rules.loan_repay_percent, fare)
      saccoDaily == saccoDailyOf(rules, takeDailyFee)
  IN  Always("FARE", fare) \o Always("SERVICE_FEE", serviceFee)
      \o Optional("SACCO_FEE", saccoDaily)
      \o Optional("SAVINGS", savings)
      \o Optional("LOAN_REPAY", loanRepay)

\* ------------------------------------------------------------ USSD helpers
\* a string is a sequence of one-character strings
DigitChars == << "0", "1", "2", "3", "4", "5", "6", "7", "8", "9" >>
IsDigit(ch) == ch \in { DigitChars[d] : d \in 1..10 }
\* Number(c) || 0 for one character: a digit's value, 0 for anything else
DigitVal(ch) == IF IsDigit(ch) THEN (CHOOSE d \in 1..10 : DigitChars[d] = ch) - 1 ELSE 0

RECURSIVE ToStr(_)
\* String(n) for a natural number
ToStr(n) == IF n < 10 THEN << DigitChars[n + 1] >>
            ELSE ToStr(n \div 10) \o << DigitChars[(n % 10) + 1] >>

RECURSIVE sumDigits(_)
sumDigits(str) == IF str = << >> THEN 0
                  ELSE sumDigits(SubSeq(str, 1, Len(str) - 1)) + DigitVal(str[Len(str)])

\* an `if` in place of the `while`
rootLoop_Once(s) == IF s > 9 THEN sumDigits(ToStr(s)) ELSE s

RECURSIVE rootLoop(_)
\* while (s > 9) s = sumDigits(String(s))
rootLoop(s) == IF s > 9 THEN rootLoop(sumDigits(ToStr(s))) ELSE s

\* digitalRoot of a string of digits
digitalRoot(str) == rootLoop(sumDigits(str))

DEFAULT_PREFIX == << "*", "0", "0", "1", "*" >>

fullCode(prefix, base, check) ==
  (IF prefix = << >> THEN DEFAULT_PREFIX ELSE prefix) \o base \o check \o << "#" >>

NoMatch == [ok |-> FALSE, base |-> << >>, check |-> << >>]

\* /(\d{3})(\d)(?=#|$)/ : the leftmost four digits followed by '#' or the end
MatchAt(str, i) ==
  /\ i + 3 <= Len(str)
  /\ \A k \in i..(i + 3) : IsDigit(str[k])
  /\ (i + 3 = Len(str) \/ str[i + 4] = "#")

\* a parser that drops every non-digit and takes the first four digits
parseUssdDigits_StripNonDigits(ussd) ==
  LET digits == SelectSeq(ussd, IsDigit)
  IN  IF Len(digits) < 4 THEN NoMatch
      ELSE [ok |-> TRUE, base |-> SubSeq(digits, 1, 3), check |-> << digits[4] >>]

parseUssdDigits(ussd) ==
  LET hits == { i \in 1..Len(ussd) : MatchAt(ussd, i) }
  IN  IF hits = {} THEN NoMatch
      ELSE LET i == CHOOSE j \in hits : \A k \in hits : j <= k
           IN  [ok |-> TRUE, base |-> SubSeq(ussd, i, i + 2), check |-> << ussd[i + 3] >>]

\* a base number as the 3-digit zero-padded string of the pool
Pad3(n) == << DigitChars[(n \div 100) + 1], DigitChars[((n \div 10) % 10) + 1],
              DigitChars[(n % 10) + 1] >>

\* the seeded range of bases is 001 .. 999
LastBase == 999

\* the base of the spec's bind scenario (*001*1102#)
ScenarioBase == 110

PoolBases == { Pad3(n) : n \in 1..MaxBase } \cup { Pad3(ScenarioBase) }

\* text order of two 3-digit strings, as .order('base') sorts them
BaseNum(b) == 100 * DigitVal(b[1]) + 10 * DigitVal(b[2]) + DigitVal(b[3])

NoTarget == [ok |-> FALSE, assigned_type |-> NULL, assigned_id |-> NULL]

\* a resolveTarget that takes the level without asking for its id
resolveTarget_LevelOnly(level, ids) ==
  IF level = "MATATU"
    THEN [ok |-> TRUE, assigned_type |-> "MATATU", assigned_id |-> ids.matatu_id]
  ELSE IF level = "SACCO"
    THEN [ok |-> TRUE, assigned_type |-> "SACCO", assigned_id |-> ids.sacco_id]
  ELSE IF level = "CASHIER"
    THEN [ok |-> TRUE, assigned_type |-> "CASHIER", assigned_id |-> ids.cashier_id]
  ELSE NoTarget

resolveTarget(level, ids) ==
  IF level = "MATATU" /\ ids.matatu_id # NULL
    THEN [ok |-> TRUE, assigned_type |-> "MATATU", assigned_id |-> ids.matatu_id]
  ELSE IF level = "SACCO" /\ ids.sacco_id # NULL
    THEN [ok |-> TRUE, assigned_type |-> "SACCO", assigned_id |-> ids.sacco_id]
  ELSE IF level = "CASHIER" /\ ids.cashier_id # NULL
    THEN [ok |-> TRUE, assigned_type |-> "CASHIER", assigned_id |-> ids.cashier_id]
  ELSE NoTarget

\* request bodies of the two pool endpoints
TargetInputs ==
  { [level |-> "SACCO", sacco_id |-> "s1", matatu_id |-> NULL, cashier_id |-> NULL],
    [level |-> "MATATU", sacco_id |-> NULL, matatu_id |-> "m1", cashier_id |-> NULL],
    [level |-> "CASHIER", sacco_id |-> NULL, matatu_id |-> NULL, cashier_id |-> NULL] }

\* codes an administrator may type: right and wrong checksums, a base outside
\* the pool, with and without the trailing '#', and text that is no code
CodeInputs ==
  { fullCode(DEFAULT_PREFIX, b, ToStr(digitalRoot(b))) : b \in PoolBases \cup {Pad3(0)} }
  \cup { DEFAULT_PREFIX \o Pad3(1) \o << "1" >>,
         DEFAULT_PREFIX \o Pad3(1) \o << "2", "#" >>,
         DEFAULT_PREFIX \o Pad3(0) \o << "1", "#" >>,
         << "*", "1", "#" >> }

\* ------------------------------------------------------------------ state
VARIABLES
  transactions,    \* table transactions: a set of rows
  ledger_entries,  \* table ledger_entries: rows in insertion order
  sacco_settings,  \* table sacco_settings: sacco -> the set holding its row, empty when there is none
  now,             \* the server clock, in ticks
  call,            \* the handleMpesaCallback invocations in flight, per slot
  timers,          \* simulated callbacks scheduled by initiate and not yet fired
  poll,            \* the status request in flight
  DEV_AUTOPAY_ON,  \* the environment's dev auto-settle switch
  delivered,       \* how many callbacks the payment network has posted
  outcome,         \* checkout id -> where its success confirmations failed before
                   \* any was settled, and whether one has been settled
  ussd_pool,       \* table ussd_pool: base -> row
  poolCall,        \* the code-pool requests in flight, per slot
  poolCalls,       \* how many code-pool requests were made so far
  calc,            \* a helper function called on its own: argument and results
  client           \* the pay button's polling loop of the cashier page

settleVars == << transactions, ledger_entries, sacco_settings, now, call, timers,
                 poll, DEV_AUTOPAY_ON, delivered, outcome, client >>

poolVars == << ussd_pool, poolCall, poolCalls >>

IdleCall ==
  [pc |-> "idle", p |-> NoPayload, created_at |-> 0, upserted_id |-> 0,
   rules |-> DefaultRules, today |-> 0, entries |-> << >>, splits |-> << >>,
   result |-> "none"]

Finished(res) == [IdleCall EXCEPT !.pc = "done", !.result = res]

IdlePoll == [pc |-> "idle", id |-> 0]

\* the loop of tt_pay: not started, about to ask the status, waiting for the
\* route's update, or left with done = true
IdleClient == [pc |-> "idle", id |-> NULL]

SlotFree(c)  == call[c].pc \in {"idle", "done"}
\* a new invocation takes the lowest free slot (slots carry no meaning)
TakesSlot(c) == SlotFree(c) /\ \A d \in Slots : d < c => ~SlotFree(d)
InFlight(c)  == ~SlotFree(c)
NoneInFlight == \A c \in Slots : SlotFree(c)

\* ------------------------------------------------------------ table helpers
RowsOf(ref) == { r \in transactions : r.mpesa_checkout_id = ref }

NextTxId == Cardinality(transactions) + 1

\* an upsert without its onConflict target: always a new row
UpsertTx_AlwaysInsert(rows, baseTx) ==
  rows \cup { [baseTx EXCEPT !.id = Cardinality(rows) + 1] }

\* .upsert(baseTx, { onConflict: 'mpesa_checkout_id' }): the row with that
\* checkout id takes the new column values and keeps its id; a new row otherwise
UpsertTx(rows, baseTx) ==
  IF \E r \in rows : r.mpesa_checkout_id = baseTx.mpesa_checkout_id
    THEN { IF r.mpesa_checkout_id = baseTx.mpesa_checkout_id
             THEN [baseTx EXCEPT !.id = r.id] ELSE r : r \in rows }
    ELSE rows \cup { [baseTx EXCEPT !.id = Cardinality(rows) + 1] }

UpsertedId(rows, ref) == (CHOOSE r \in rows : r.mpesa_checkout_id = ref).id

\* the transaction row handleMpesaCallback builds from its payload
baseTx(p, at) ==
  [id |-> 0, sacco_id |-> p.sacco_id, matatu_id |-> p.matatu_id,
   fare_amount_kes |-> round2(p.amount), service_fee_kes |-> SNAPSHOT_FEE,
   status |-> IF p.success THEN "SUCCESS" ELSE "FAILED",
   mpesa_checkout_id |-> p.checkout_id, mpesa_receipt |-> p.receipt,
   created_at |-> at]

\* a lookup that answers an all-zero policy when the tenant has no row
getRuleset_ZeroWhenMissing(sacco_id) ==
  IF sacco_id \in DOMAIN sacco_settings /\ sacco_settings[sacco_id] # {}
    THEN CHOOSE r \in sacco_settings[sacco_id] : TRUE
    ELSE [fare_fee_flat_kes |-> 0, savings_percent |-> 0,
          sacco_daily_fee_kes |-> 0, loan_repay_percent |-> 0]

getRuleset(sacco_id) ==
  IF sacco_id \in DOMAIN sacco_settings /\ sacco_settings[sacco_id] # {}
    THEN CHOOSE r \in sacco_settings[sacco_id] : TRUE ELSE DefaultRules

\* the gate query filtering on the spec's name of the entry type
hasPaidSaccoFeeToday_WrongType(matatu_id, today) ==
  \E i \in 1..Len(ledger_entries) :
     /\ ledger_entries[i].matatu_id = matatu_id
     /\ ledger_entries[i].type = "DAILY_FEE"
     /\ ledger_entries[i].created_at >= today

\* the query of hasPaidSaccoFeeToday, with `today` the start of day it was given
hasPaidSaccoFeeToday(matatu_id, today) ==
  \E i \in 1..Len(ledger_entries) :
     /\ ledger_entries[i].matatu_id = matatu_id
     /\ ledger_entries[i].type = "SACCO_FEE"
     /\ ledger_entries[i].created_at >= today

\* splits.map(...) of handleMpesaCallback
EntriesOf(txid, p, splits, at) ==
  [ i \in 1..Len(splits) |->
      [transaction_id |-> txid, sacco_id |-> p.sacco_id, matatu_id |-> p.matatu_id,
       type |-> splits[i].type, amount_kes |-> splits[i].amount_kes,
       created_at |-> at] ]

\* handleMpesaCallback without its `if (!success) return`
AfterUpsert_NoReturn(success) == "rules"

\* where handleMpesaCallback goes once the upsert has answered
AfterUpsert(success) == IF success THEN "rules" ELSE "done"

\* the test of initiate (`!amount`), which takes an amount of 0 for absent
PayloadInvalid_ZeroAbsent(p) ==
  p.checkout_id = NULL \/ p.amount = NOAMOUNT \/ p.amount = 0 \/ p.sacco_id = NULL

\* !checkout_id || amount == null || !sacco_id
PayloadInvalid(p) == p.checkout_id = NULL \/ p.amount = NOAMOUNT \/ p.sacco_id = NULL

\* ------------------------------------------------------------ pool rows
FreeRow(b) ==
  [checksum |-> ToStr(digitalRoot(b)), allocated |-> FALSE, level |-> NULL,
   sacco_id |-> NULL, matatu_id |-> NULL, cashier_id |-> NULL, allocated_at |-> NEVER]

\* the pool as seeded: every base of the range, free, with its checksum digit
SeededPool == [b \in PoolBases |-> FreeRow(b)]

IdlePoolCall ==
  [pc |-> "idle", op |-> "none", target |-> NoTarget, base |-> << >>, check |-> << >>,
   result |-> "none", code |-> << >>]

PoolDone(op, res, b, code) ==
  [IdlePoolCall EXCEPT !.pc = "done", !.op = op, !.result = res, !.base = b, !.code = code]

\* no helper is being called on its own
NoCalc == [fn |-> "none", arg |-> << >>, out |-> NOAMOUNT, prev |-> NOAMOUNT, calls |-> 0]

\* ------------------------------------------------------------------ Init
\* the tables, the clock and the requests of a freshly started server
Tables ==
  /\ transactions = {}
  /\ ledger_entries = << >>
  /\ sacco_settings = [s \in Saccos |-> {}]
  /\ now = 0
  /\ call = [c \in Slots |-> IdleCall]
  /\ timers = {}
  /\ poll = IdlePoll
  /\ DEV_AUTOPAY_ON = TRUE
  /\ delivered = 0
  /\ outcome = [r \in Refs |-> [first |-> "none", ok |-> FALSE]]
  /\ client = IdleClient
  /\ ussd_pool = SeededPool
  /\ poolCall = [c \in Slots |-> IdlePoolCall]
  /\ poolCalls = 0

Init == Tables /\ calc = NoCalc

\* --------------------------------------------------- handleMpesaCallback
\* entry: destructure the payload, validate, build baseTx, send the upsert
StartCallback(c, p) ==
  /\ TakesSlot(c)
  /\ call' = [call EXCEPT ![c] =
       IF PayloadInvalid(p) THEN Finished("validation")
       ELSE [IdleCall EXCEPT !.pc = "upsert", !.p = p, !.created_at = now]]

\* POST /api/cashier/callback/mpesa
Deliver(c, p) ==
  /\ delivered < MaxDeliver
  /\ StartCallback(c, p)
  /\ delivered' = delivered + 1
  /\ UNCHANGED << transactions, ledger_entries, sacco_settings, now, timers, poll,
                  DEV_AUTOPAY_ON >>
  /\ UNCHANGED << outcome, poolVars, calc, client >>

\* the setTimeout callback of initiate
TimerFire(c, t) ==
  /\ t \in timers
  /\ (now - t.at) * TickMs >= CALLBACK_DELAY_MS
  /\ StartCallback(c, t.p)
  /\ timers' = timers \ {t}
  /\ UNCHANGED << transactions, ledger_entries, sacco_settings, now, poll,
                  DEV_AUTOPAY_ON, delivered >>
  /\ UNCHANGED << outcome, poolVars, calc, client >>

\* the upsert answers; `if (!success) return`
UpsertStep(c) ==
  /\ call[c].pc = "upsert"
  /\ LET p    == call[c].p
         rows == UpsertTx(transactions, baseTx(p, call[c].created_at))
     IN  /\ transactions' = rows
         /\ call' = [call EXCEPT ![c] =
              IF AfterUpsert(p.success) = "done" THEN Finished("ok")
              ELSE [@ EXCEPT !.pc = AfterUpsert(p.success),
                             !.upserted_id = UpsertedId(rows, p.checkout_id)]]
  /\ UNCHANGED << ledger_entries, sacco_settings, now, timers, poll,
                  DEV_AUTOPAY_ON, delivered >>
  /\ UNCHANGED << outcome, poolVars, calc, client >>

GateNeeded_Always(matatu_id) == TRUE

\* `matatu_id ? await hasPaidSaccoFeeToday(matatu_id) : false`
GateNeeded(matatu_id) == matatu_id # NULL

\* a handler that treats a payment without a vehicle as having paid the fee
RulesStep_NoVehicleNoFee(c) ==
  /\ call[c].pc = "rules"
  /\ LET p     == call[c].p
         rules == getRuleset(p.sacco_id)
     IN  call' = [call EXCEPT ![c] =
           IF GateNeeded(p.matatu_id)
             THEN [@ EXCEPT !.pc = "gate", !.rules = rules, !.today = startOfDay(now)]
             ELSE [@ EXCEPT !.pc = "insert", !.rules = DefaultRules,
                     !.entries = EntriesOf(call[c].upserted_id, p,
                                           computeSplits(p.amount, rules, FALSE), now)]]
  /\ UNCHANGED << transactions, ledger_entries, sacco_settings, now, timers, poll,
                  DEV_AUTOPAY_ON, delivered >>
  /\ UNCHANGED << outcome, poolVars, calc, client >>

\* getRuleset answers; without a matatu_id the splits are computed at once
RulesStep(c) ==
  /\ call[c].pc = "rules"
  /\ LET p     == call[c].p
         rules == getRuleset(p.sacco_id)
     IN  call' = [call EXCEPT ![c] =
           IF GateNeeded(p.matatu_id)
             THEN [@ EXCEPT !.pc = "gate", !.rules = rules, !.today = startOfDay(now)]
             ELSE [@ EXCEPT !.pc = "insert", !.rules = DefaultRules,
                     !.entries = EntriesOf(call[c].upserted_id, p,
                                           computeSplits(p.amount, rules, TRUE), now)]]
  /\ UNCHANGED << transactions, ledger_entries, sacco_settings, now, timers, poll,
                  DEV_AUTOPAY_ON, delivered >>
  /\ UNCHANGED << outcome, poolVars, calc, client >>

\* hasPaidSaccoFeeToday answers; the splits are computed and the insert is sent
GateStep(c) ==
  /\ call[c].pc = "gate"
  /\ LET p         == call[c].p
         dailyDone == hasPaidSaccoFeeToday(p.matatu_id, call[c].today)
     IN  call' = [call EXCEPT ![c] =
           [@ EXCEPT !.pc = "insert", !.rules = DefaultRules, !.today = 0,
                     !.entries = EntriesOf(call[c].upserted_id, p,
                                   computeSplits(p.amount, call[c].rules, ~dailyDone), now)]]
  /\ UNCHANGED << transactions, ledger_entries, sacco_settings, now, timers, poll,
                  DEV_AUTOPAY_ON, delivered >>
  /\ UNCHANGED << outcome, poolVars, calc, client >>

\* an insert that replaces the table's content
InsertStep_Overwrite(c) ==
  /\ call[c].pc = "insert"
  /\ ledger_entries' = call[c].entries
  /\ call' = [call EXCEPT ![c] = Finished("ok")]
  /\ outcome' = [outcome EXCEPT ![call[c].p.checkout_id].ok = TRUE]
  /\ UNCHANGED << transactions, sacco_settings, now, timers, poll,
                  DEV_AUTOPAY_ON, delivered >>
  /\ UNCHANGED << poolVars, calc, client >>

\* ledger_entries.insert(entries) answers: one statement, all rows or none
InsertStep(c) ==
  /\ call[c].pc = "insert"
  /\ ledger_entries' = ledger_entries \o call[c].entries
  /\ call' = [call EXCEPT ![c] = Finished("ok")]
  /\ outcome' = [outcome EXCEPT ![call[c].p.checkout_id].ok = TRUE]
  /\ UNCHANGED << transactions, sacco_settings, now, timers, poll,
                  DEV_AUTOPAY_ON, delivered >>
  /\ UNCHANGED << poolVars, calc, client >>

\* an insert that leaves its first row behind when it fails
FailedInsertRows_Partial(entries) == SubSeq(entries, 1, 1)

\* the rows a failed .insert(entries) leaves in the table: one statement, none
FailedInsertRows(entries) == << >>

\* any awaited storage call answers with an error: the handler throws and the
\* route answers { success: false }
StorageError(c) ==
  /\ call[c].pc \in {"upsert", "rules", "gate", "insert"}
  /\ call' = [call EXCEPT ![c] = Finished("storage")]
  /\ ledger_entries' = IF call[c].pc = "insert"
                         THEN ledger_entries \o FailedInsertRows(call[c].entries)
                         ELSE ledger_entries
  /\ outcome' = [outcome EXCEPT ![call[c].p.checkout_id].first =
                   IF call[c].p.success /\ @ = "none" /\ ~outcome[call[c].p.checkout_id].ok
                     THEN call[c].pc ELSE @]
  /\ UNCHANGED << transactions, sacco_settings, now, timers, poll,
                  DEV_AUTOPAY_ON, delivered >>
  /\ UNCHANGED << poolVars, calc, client >>

\* --------------------------------------------------- POST /api/fees/quote
\* the bodies of fee-quote requests: with and without a vehicle, and with a
\* required field left out or zero
QuoteBodies ==
  { [sacco_id |-> "s1", matatu_id |-> "m1", amount |-> 40000],
    [sacco_id |-> "s1", matatu_id |-> NULL, amount |-> 40000],
    [sacco_id |-> NULL, matatu_id |-> "m1", amount |-> 40000],
    [sacco_id |-> "s1", matatu_id |-> "m1", amount |-> 0],
    [sacco_id |-> "s1", matatu_id |-> "m1", amount |-> NOAMOUNT] }

\* `!sacco_id || !amount`
QuoteInvalid(body) ==
  body.sacco_id = NULL \/ body.amount = NOAMOUNT \/ body.amount = 0

\* entry: destructure the body, answer 400 or send getRuleset
QuoteStart(c, body) ==
  /\ TakesSlot(c)
  /\ call' = [call EXCEPT ![c] =
       IF QuoteInvalid(body) THEN Finished("validation")
       ELSE [IdleCall EXCEPT !.pc = "quoteRules",
               !.p = [NoPayload EXCEPT !.sacco_id = body.sacco_id,
                        !.matatu_id = body.matatu_id, !.amount = body.amount]]]
  /\ UNCHANGED << transactions, ledger_entries, sacco_settings, now, timers, poll,
                  DEV_AUTOPAY_ON, delivered >>
  /\ UNCHANGED << outcome, poolVars, calc, client >>

\* getRuleset answers; without a matatu_id the splits are computed and sent
QuoteRulesStep(c) ==
  /\ call[c].pc = "quoteRules"
  /\ LET p     == call[c].p
         rules == getRuleset(p.sacco_id)
     IN  call' = [call EXCEPT ![c] =
           IF GateNeeded(p.matatu_id)
             THEN [@ EXCEPT !.pc = "quoteGate", !.rules = rules,
                            !.today = startOfDay(now)]
             ELSE [Finished("ok") EXCEPT !.p = p,
                     !.splits = computeSplits(p.amount, rules, TRUE)]]
  /\ UNCHANGED << transactions, ledger_entries, sacco_settings, now, timers, poll,
                  DEV_AUTOPAY_ON, delivered >>
  /\ UNCHANGED << outcome, poolVars, calc, client >>

\* a quote that also books the previewed parts
QuoteGateStep_Books(c) ==
  /\ call[c].pc = "quoteGate"
  /\ LET p         == call[c].p
         dailyDone == hasPaidSaccoFeeToday(p.matatu_id, call[c].today)
         splits    == computeSplits(p.amount, call[c].rules, ~dailyDone)
     IN  /\ call' = [call EXCEPT ![c] =
              [Finished("ok") EXCEPT !.p = p, !.today = call[c].today,
                                     !.splits = splits]]
         /\ ledger_entries' = ledger_entries \o EntriesOf(0, p, splits, now)
  /\ UNCHANGED << transactions, sacco_settings, now, timers, poll,
                  DEV_AUTOPAY_ON, delivered >>
  /\ UNCHANGED << outcome, poolVars, calc, client >>

\* hasPaidSaccoFeeToday answers; the splits are computed and sent; the slot
\* keeps the request's body, the start of day it asked about and the answer
QuoteGateStep(c) ==
  /\ call[c].pc = "quoteGate"
  /\ LET p         == call[c].p
         dailyDone == hasPaidSaccoFeeToday(p.matatu_id, call[c].today)
     IN  call' = [call EXCEPT ![c] =
           [Finished("ok") EXCEPT !.p = p, !.today = call[c].today,
              !.splits = computeSplits(p.amount, call[c].rules, ~dailyDone)]]
  /\ UNCHANGED << transactions, ledger_entries, sacco_settings, now, timers, poll,
                  DEV_AUTOPAY_ON, delivered >>
  /\ UNCHANGED << outcome, poolVars, calc, client >>

\* an awaited storage call of the quote answers with an error: status 500
QuoteStorageError(c) ==
  /\ call[c].pc \in {"quoteRules", "quoteGate"}
  /\ call' = [call EXCEPT ![c] = Finished("storage")]
  /\ UNCHANGED << transactions, ledger_entries, sacco_settings, now, timers, poll,
                  DEV_AUTOPAY_ON, delivered >>
  /\ UNCHANGED << outcome, poolVars, calc, client >>

\* --------------------------------------------------- POST /api/cashier/initiate
\* checkout_id is random: any reference; the unique constraint rejects a duplicate
Initiate(amount, msisdn, sacco_id, matatu_id, checkout_id) ==
  /\ IF amount = NOAMOUNT \/ amount = 0 \/ msisdn = NULL \/ sacco_id = NULL
          \/ RowsOf(checkout_id) # {}
       THEN UNCHANGED << transactions, timers >>
       ELSE /\ transactions' = transactions \cup
                 { [id |-> NextTxId, sacco_id |-> sacco_id, matatu_id |-> matatu_id,
                    fare_amount_kes |-> round2(amount), service_fee_kes |-> TX_DEFAULT_FEE,
                    status |-> "PENDING", mpesa_checkout_id |-> checkout_id,
                    mpesa_receipt |-> NULL, created_at |-> now] }
            /\ timers' = timers \cup
                 { [at |-> now,
                    p |-> [checkout_id |-> checkout_id, success |-> TRUE,
                           amount |-> amount, sacco_id |-> sacco_id,
                           matatu_id |-> matatu_id, receipt |-> "R"]] }
  /\ UNCHANGED << ledger_entries, sacco_settings, now, call, poll,
                  DEV_AUTOPAY_ON, delivered >>
  /\ UNCHANGED << outcome, poolVars, calc, client >>

\* --------------------------------------------------- GET /api/cashier/status/:id
\* the read; with DEV_AUTOPAY_ON a PENDING row older than 3 s is to be updated
StatusRead(r) ==
  /\ r \in transactions
  /\ poll.pc = "idle"
  /\ poll' = IF DEV_AUTOPAY_ON /\ r.status = "PENDING"
                /\ (now - r.created_at) * TickMs > AUTOPAY_AGE_MS
               THEN [pc |-> "update", id |-> r.id] ELSE poll
  /\ UNCHANGED << transactions, ledger_entries, sacco_settings, now, call, timers,
                  DEV_AUTOPAY_ON, delivered >>
  /\ UNCHANGED << outcome, poolVars, calc, client >>

\* transactions.update({ status: 'SUCCESS' }).eq('id', tx.id)
StatusUpdate ==
  /\ poll.pc = "update"
  /\ transactions' = { IF r.id = poll.id THEN [r EXCEPT !.status = "SUCCESS"] ELSE r
                       : r \in transactions }
  /\ poll' = IdlePoll
  /\ UNCHANGED << ledger_entries, sacco_settings, now, call, timers,
                  DEV_AUTOPAY_ON, delivered >>
  /\ UNCHANGED << outcome, poolVars, calc, client >>

\* --------------------------------------------------- tt_pay onclick
FinalStatuses_None == {}

\* `['SUCCESS', 'FAILED', 'TIMEOUT', 'CANCELLED'].includes(status)`
FinalStatuses == {"SUCCESS", "FAILED", "TIMEOUT", "CANCELLED"}

\* initiate has answered with checkout_id: `let done=false; while(!done)`
ClientLoopStart(ref) ==
  /\ client.pc = "idle"
  /\ RowsOf(ref) # {}
  /\ client' = [pc |-> "poll", id |-> ref]
  /\ UNCHANGED << transactions, ledger_entries, sacco_settings, now, call, timers,
                  poll, DEV_AUTOPAY_ON, delivered, outcome >>
  /\ UNCHANGED << poolVars, calc >>

\* one round of the loop up to the route's read: TT.status(id) reaches GET
\* /api/cashier/status/:id, which finds the row by its checkout id; a PENDING
\* row older than 3 s is to be updated when the switch is on, otherwise the
\* route answers and `done = st.final`
ClientStatusRead ==
  /\ client.pc = "poll"
  /\ \E r \in RowsOf(client.id) :
       client' =
         IF DEV_AUTOPAY_ON /\ r.status = "PENDING"
            /\ (now - r.created_at) * TickMs > AUTOPAY_AGE_MS
           THEN [client EXCEPT !.pc = "update"]
           ELSE IF r.status \in FinalStatuses
                  THEN [client EXCEPT !.pc = "done"]
                  ELSE [client EXCEPT !.pc = "wait"]
  /\ UNCHANGED << transactions, ledger_entries, sacco_settings, now, call, timers,
                  poll, DEV_AUTOPAY_ON, delivered, outcome >>
  /\ UNCHANGED << poolVars, calc >>

\* `if(!done) await new Promise(r=>setTimeout(r,1500))`
ClientWait ==
  /\ client.pc = "wait"
  /\ client' = [client EXCEPT !.pc = "poll"]
  /\ UNCHANGED << transactions, ledger_entries, sacco_settings, now, call, timers,
                  poll, DEV_AUTOPAY_ON, delivered, outcome >>
  /\ UNCHANGED << poolVars, calc >>

\* the route's update answers; it reports SUCCESS, final, and the loop ends
ClientStatusUpdate ==
  /\ client.pc = "update"
  /\ transactions' = { IF r.mpesa_checkout_id = client.id
                         THEN [r EXCEPT !.status = "SUCCESS"] ELSE r
                       : r \in transactions }
  /\ client' = [client EXCEPT !.pc = "done"]
  /\ UNCHANGED << ledger_entries, sacco_settings, now, call, timers,
                  poll, DEV_AUTOPAY_ON, delivered, outcome >>
  /\ UNCHANGED << poolVars, calc >>

\* --------------------------------------------------- POST /api/admin/rulesets
SetRuleset(sacco_id, row) ==
  /\ sacco_settings' = [sacco_settings EXCEPT ![sacco_id] = {row}]
  /\ UNCHANGED << transactions, ledger_entries, now, call, timers, poll,
                  DEV_AUTOPAY_ON, delivered >>
  /\ UNCHANGED << outcome, poolVars, calc, client >>

Tick ==
  /\ now < MaxTime
  /\ now' = now + 1
  /\ UNCHANGED << transactions, ledger_entries, sacco_settings, call, timers, poll,
                  DEV_AUTOPAY_ON, delivered >>
  /\ UNCHANGED << outcome, poolVars, calc, client >>

\* ------------------------------------------------------------ pool requests
PoolSlotFree(c)  == poolCall[c].pc \in {"idle", "done"}
PoolTakesSlot(c) == PoolSlotFree(c) /\ \A d \in Slots : d < c => ~PoolSlotFree(d)

\* .eq('allocated', false).order('base', { ascending: true }).limit(1)
FreeBases == { b \in DOMAIN ussd_pool : ~ussd_pool[b].allocated }

\* the select ordered descending
LowestFree_Descending ==
  CHOOSE b \in FreeBases : \A o \in FreeBases : BaseNum(b) >= BaseNum(o)

LowestFree == CHOOSE b \in FreeBases : \A o \in FreeBases : BaseNum(b) <= BaseNum(o)

\* an update that leaves out `allocated: true`
AllocatedRow_FlagNotSet(row, target, at) ==
  [row EXCEPT !.level = target.assigned_type,
     !.sacco_id   = IF target.assigned_type = "SACCO" THEN target.assigned_id ELSE NULL,
     !.matatu_id  = IF target.assigned_type = "MATATU" THEN target.assigned_id ELSE NULL,
     !.cashier_id = IF target.assigned_type = "CASHIER" THEN target.assigned_id ELSE NULL,
     !.allocated_at = at]

\* the row .update({...}) of both endpoints writes
AllocatedRow(row, target, at) ==
  [row EXCEPT !.allocated = TRUE, !.level = target.assigned_type,
     !.sacco_id   = IF target.assigned_type = "SACCO" THEN target.assigned_id ELSE NULL,
     !.matatu_id  = IF target.assigned_type = "MATATU" THEN target.assigned_id ELSE NULL,
     !.cashier_id = IF target.assigned_type = "CASHIER" THEN target.assigned_id ELSE NULL,
     !.allocated_at = at]

\* an update without its .eq('base', base) filter: every row
UpdatePool_NoFilter(pool, b, target, at) ==
  [x \in DOMAIN pool |-> AllocatedRow(pool[x], target, at)]

\* .update({...}).eq('base', base): every row with that base
UpdatePool(pool, b, target, at) ==
  [x \in DOMAIN pool |-> IF x = b THEN AllocatedRow(pool[x], target, at) ELSE pool[x]]

\* POST /api/admin/ussd/pool/assign-next: resolveTarget, then the select is sent
AssignStart(c, body) ==
  /\ poolCalls < MaxPoolCalls
  /\ poolCalls' = poolCalls + 1
  /\ PoolTakesSlot(c)
  /\ LET t == resolveTarget(body.level, body)
     IN  poolCall' = [poolCall EXCEPT ![c] =
           IF ~t.ok THEN PoolDone("assign", "level and matching id required", << >>, << >>)
           ELSE [IdlePoolCall EXCEPT !.pc = "select", !.op = "assign", !.target = t]]
  /\ UNCHANGED ussd_pool
  /\ UNCHANGED << settleVars, calc >>

\* the select of the lowest free base answers
AssignSelect(c) ==
  /\ poolCall[c].pc = "select" /\ poolCall[c].op = "assign"
  /\ poolCall' = [poolCall EXCEPT ![c] =
       IF FreeBases = {} THEN PoolDone("assign", "no free codes in pool", << >>, << >>)
       ELSE [@ EXCEPT !.pc = "update", !.base = LowestFree,
                       !.check = ussd_pool[LowestFree].checksum]]
  /\ UNCHANGED << ussd_pool, poolCalls >>
  /\ UNCHANGED << settleVars, calc >>

\* a handler that does not test the checksum
ChecksumMismatch_Never(base, check) == FALSE

\* want !== parsed.check, with want = String(digitalRoot(parsed.base))
ChecksumMismatch(base, check) == ToStr(digitalRoot(base)) # check

\* POST /api/admin/ussd/bind-from-pool: resolveTarget, parse, checksum test
BindStart(c, body, ussd_code) ==
  /\ poolCalls < MaxPoolCalls
  /\ poolCalls' = poolCalls + 1
  /\ PoolTakesSlot(c)
  /\ LET t      == resolveTarget(body.level, body)
         parsed == parseUssdDigits(ussd_code)
     IN  poolCall' = [poolCall EXCEPT ![c] =
           IF ~t.ok THEN PoolDone("bind", "level and matching id required", << >>, << >>)
           ELSE IF ~parsed.ok THEN PoolDone("bind", "invalid code format", << >>, << >>)
           ELSE IF ChecksumMismatch(parsed.base, parsed.check)
             THEN PoolDone("bind", "checksum mismatch", parsed.base, << >>)
           ELSE [IdlePoolCall EXCEPT !.pc = "select", !.op = "bind", !.target = t,
                                     !.base = parsed.base, !.check = parsed.check]]
  /\ UNCHANGED ussd_pool
  /\ UNCHANGED << settleVars, calc >>

\* a handler without `if (!data)`: a missing row is taken for a free one
BindAnswer_NoBaseTest(pool, b) ==
  IF b \in DOMAIN pool /\ pool[b].allocated THEN "already allocated" ELSE "update"

\* a handler without `if (data.allocated)`
BindAnswer_NoAllocatedTest(pool, b) ==
  IF b \notin DOMAIN pool THEN "base not in pool" ELSE "update"

\* what bind-from-pool does with the answer of its select
BindAnswer(pool, b) ==
  IF b \notin DOMAIN pool THEN "base not in pool"
  ELSE IF pool[b].allocated THEN "already allocated"
  ELSE "update"

\* the select of the row with that base answers
BindSelect(c) ==
  /\ poolCall[c].pc = "select" /\ poolCall[c].op = "bind"
  /\ LET b == poolCall[c].base
     IN  poolCall' = [poolCall EXCEPT ![c] =
           IF BindAnswer(ussd_pool, b) = "update" THEN [@ EXCEPT !.pc = "update"]
           ELSE PoolDone("bind", BindAnswer(ussd_pool, b), b, << >>)]
  /\ UNCHANGED << ussd_pool, poolCalls >>
  /\ UNCHANGED << settleVars, calc >>

\* the update answers and the code is returned (either endpoint)
PoolUpdate(c) ==
  /\ poolCall[c].pc = "update"
  /\ ussd_pool' = UpdatePool(ussd_pool, poolCall[c].base, poolCall[c].target, now)
  /\ poolCall' = [poolCall EXCEPT ![c] =
       PoolDone(@.op, "ok", @.base, fullCode(DEFAULT_PREFIX, @.base, @.check))]
  /\ UNCHANGED poolCalls
  /\ UNCHANGED << settleVars, calc >>

\* a select or an update answers with an error: the handler answers 500
PoolStorageError(c) ==
  /\ poolCall[c].pc \in {"select", "update"}
  /\ poolCall' = [poolCall EXCEPT ![c] = PoolDone(@.op, "storage", << >>, << >>)]
  /\ UNCHANGED << ussd_pool, poolCalls >>
  /\ UNCHANGED << settleVars, calc >>

vars == << settleVars, poolVars, calc >>

\* ------------------------------------------------------------ specifications
\* concurrent confirmations for one vehicle
Next ==
  \/ \E c \in Slots, p \in VehiclePayloads : Deliver(c, p)
  \/ \E c \in Slots : UpsertStep(c)
  \/ \E c \in Slots : RulesStep(c)
  \/ \E c \in Slots : GateStep(c)
  \/ \E c \in Slots : InsertStep(c)
  \/ \E c \in Slots : StorageError(c)
  \/ \E s \in Saccos, row \in PolicyRows : SetRuleset(s, row)
  \/ Tick

Spec == Init /\ [][Next]_vars

\* one handleMpesaCallback at a time, with storage errors and ruleset updates
DeliverSeq(p) == NoneInFlight /\ Deliver(1, p)

NextSeq ==
  \/ \E p \in ValidPayloads : DeliverSeq(p)
  \/ UpsertStep(1)
  \/ RulesStep(1)
  \/ GateStep(1)
  \/ InsertStep(1)
  \/ StorageError(1)
  \/ \E s \in Saccos, row \in PolicyRows : SetRuleset(s, row)
  \/ Tick

SpecSeq == Init /\ [][NextSeq]_vars

\* the cashier flow: initiate, its simulated callback, callbacks of the payment
\* network and status polls, one handleMpesaCallback at a time
TimerFireSeq(t) == NoneInFlight /\ TimerFire(1, t)

NextCashier ==
  \/ \E a \in {0, 40000}, ref \in Refs : Initiate(a, "2547", "s1", "m1", ref)
  \/ \E t \in timers : TimerFireSeq(t)
  \/ \E p \in VehiclePayloads : DeliverSeq(p)
  \/ UpsertStep(1)
  \/ RulesStep(1)
  \/ GateStep(1)
  \/ InsertStep(1)
  \/ \E r \in transactions : StatusRead(r)
  \/ StatusUpdate
  \/ Tick

SpecCashier == Init /\ [][NextCashier]_vars

\* confirmations with fields left out, one handleMpesaCallback at a time
NextEdge ==
  \/ \E p \in EdgePayloads : DeliverSeq(p)
  \/ UpsertStep(1)
  \/ RulesStep(1)
  \/ GateStep(1)
  \/ InsertStep(1)
  \/ StorageError(1)
  \/ Tick

SpecEdge == Init /\ [][NextEdge]_vars

\* fee quotes and confirmations, one request at a time, with storage errors
\* and ruleset updates
QuoteStartSeq(body) == NoneInFlight /\ QuoteStart(1, body)

\* the confirmations sent between quotes: a payment for a vehicle, its
\* failure notice, and two payments without a vehicle
QuoteSettles ==
  { FullPayload,
    [FullPayload EXCEPT !.success = FALSE],
    [FullPayload EXCEPT !.matatu_id = NULL],
    [FullPayload EXCEPT !.matatu_id = NULL, !.checkout_id = "X2"] }

NextQuote ==
  \/ \E body \in QuoteBodies : QuoteStartSeq(body)
  \/ QuoteRulesStep(1)
  \/ QuoteGateStep(1)
  \/ QuoteStorageError(1)
  \/ \E p \in QuoteSettles : DeliverSeq(p)
  \/ UpsertStep(1)
  \/ RulesStep(1)
  \/ GateStep(1)
  \/ InsertStep(1)
  \/ StorageError(1)
  \/ \E s \in Saccos, row \in PolicyRows : SetRuleset(s, row)
  \/ Tick

SpecQuote == Init /\ [][NextQuote]_vars

\* digitalRoot called on its own, twice, for each base of the range
DigitalRootCall ==
  /\ calc.fn = "digitalRoot"
  /\ calc.calls < MaxRootCalls
  /\ calc' = [calc EXCEPT !.out = digitalRoot(calc.arg), !.prev = calc.out,
                           !.calls = calc.calls + 1]
  /\ UNCHANGED << settleVars, poolVars >>

InitRoot ==
  /\ Tables
  /\ calc \in { [NoCalc EXCEPT !.fn = "digitalRoot", !.arg = Pad3(n)] : n \in 1..LastBase }

NextRoot == DigitalRootCall

SpecRoot == InitRoot /\ [][NextRoot]_vars

\* fullCode called on its own for a base and its digital root; the code is
\* then dialled as rendered or without its trailing '#'
FullCodeCall ==
  /\ calc.fn = "roundTrip" /\ calc.calls = 0
  /\ \E hash \in BOOLEAN :
       LET code == fullCode(DEFAULT_PREFIX, calc.arg, ToStr(digitalRoot(calc.arg)))
       IN  calc' = [calc EXCEPT !.calls = 1,
                      !.prev = IF hash THEN code ELSE SubSeq(code, 1, Len(code) - 1)]
  /\ UNCHANGED << settleVars, poolVars >>

\* parseUssdDigits called on the dialled code
ParseCall ==
  /\ calc.fn = "roundTrip" /\ calc.calls = 1
  /\ calc' = [calc EXCEPT !.calls = 2, !.out = parseUssdDigits(calc.prev)]
  /\ UNCHANGED << settleVars, poolVars >>

InitTrip ==
  /\ Tables
  /\ calc \in { [NoCalc EXCEPT !.fn = "roundTrip", !.arg = Pad3(n)] : n \in 1..LastBase }

NextTrip == FullCodeCall \/ ParseCall

SpecTrip == InitTrip /\ [][NextTrip]_vars

\* ------------------------------------------------------------ computeSplits
\* amounts in mills: whole cents, sub-cent amounts and exact halves of a cent
SplitAmounts == { 0, 5, 100, 300, 700, 984, 1005, 1046, 40000, 100000 }

\* the default policy, the stored row, and a row under which every part is positive
SplitPolicies ==
  { DefaultRules } \cup PolicyRows \cup
  { [fare_fee_flat_kes |-> 250, savings_percent |-> 3000,
     sacco_daily_fee_kes |-> 5000, loan_repay_percent |-> 500] }

ComputeSplitsCall ==
  /\ calc.fn = "computeSplits" /\ calc.calls = 0
  /\ calc' = [calc EXCEPT !.calls = 1,
                 !.out = computeSplits(calc.arg.amount, calc.arg.rules,
                                       calc.arg.takeDailyFee)]
  /\ UNCHANGED << settleVars, poolVars >>

InitSplits ==
  /\ Tables
  /\ calc \in { [NoCalc EXCEPT !.fn = "computeSplits",
                    !.arg = [amount |-> a, rules |-> r, takeDailyFee |-> f]] :
                 a \in SplitAmounts, r \in SplitPolicies, f \in BOOLEAN }

NextSplits == ComputeSplitsCall

SpecSplits == InitSplits /\ [][NextSplits]_vars

\* the code pool under concurrent requests
AssignStartAny(c, body) == poolCalls < MaxOverlap /\ AssignStart(c, body)
BindStartAny(c, body, ussd_code) == poolCalls < MaxOverlap /\ BindStart(c, body, ussd_code)

NextPool ==
  \/ \E c \in Slots, body \in TargetInputs : AssignStartAny(c, body)
  \/ \E c \in Slots : AssignSelect(c)
  \/ \E c \in Slots, body \in TargetInputs, code \in CodeInputs : BindStartAny(c, body, code)
  \/ \E c \in Slots : BindSelect(c)
  \/ \E c \in Slots : PoolUpdate(c)
  \/ \E c \in Slots : PoolStorageError(c)
  \/ Tick

SpecPool == Init /\ [][NextPool]_vars

\* the code pool with one request at a time
PoolIdle == \A c \in Slots : PoolSlotFree(c)
AssignStartSeq(body) == PoolIdle /\ AssignStart(1, body)
BindStartSeq(body, ussd_code) == PoolIdle /\ BindStart(1, body, ussd_code)

NextPoolSeq ==
  \/ \E body \in TargetInputs : AssignStartSeq(body)
  \/ AssignSelect(1)
  \/ \E body \in TargetInputs, code \in CodeInputs : BindStartSeq(body, code)
  \/ BindSelect(1)
  \/ PoolUpdate(1)
  \/ PoolStorageError(1)
  \/ Tick

SpecPoolSeq == Init /\ [][NextPoolSeq]_vars

\* assign-next requests only, one at a time
NextAssign ==
  \/ \E body \in TargetInputs : AssignStartSeq(body)
  \/ AssignSelect(1)
  \/ PoolUpdate(1)
  \/ PoolStorageError(1)
  \/ Tick

SpecAssign == Init /\ [][NextAssign]_vars

\* overlapping fee quotes over a store that no request writes: empty, or
\* holding one settled payment of the vehicle made at time 0, with or without
\* a policy row
SettledStore ==
  /\ transactions = UpsertTx({}, [baseTx(FullPayload, 0) EXCEPT !.id = 1])
  /\ ledger_entries =
       EntriesOf(1, FullPayload, computeSplits(FullPayload.amount, DefaultRules, TRUE), 0)

InitQuotes ==
  /\ now = 0
  /\ call = [c \in Slots |-> IdleCall]
  /\ timers = {}
  /\ poll = IdlePoll
  /\ DEV_AUTOPAY_ON = TRUE
  /\ delivered = 0
  /\ outcome = [r \in Refs |-> [first |-> "none", ok |-> FALSE]]
  /\ client = IdleClient
  /\ ussd_pool = SeededPool
  /\ poolCall = [c \in Slots |-> IdlePoolCall]
  /\ poolCalls = 0
  /\ calc = NoCalc
  /\ sacco_settings \in { [s \in Saccos |-> rows] : rows \in { {} } \cup { {r} : r \in PolicyRows } }
  /\ \/ transactions = {} /\ ledger_entries = << >>
     \/ SettledStore

NextQuotes ==
  \/ \E c \in Slots, body \in QuoteBodies : QuoteStart(c, body)
  \/ \E c \in Slots : QuoteRulesStep(c)
  \/ \E c \in Slots : QuoteGateStep(c)
  \/ \E c \in Slots : QuoteStorageError(c)
  \/ Tick

SpecQuotes == InitQuotes /\ [][NextQuotes]_vars

\* one payment from the cashier page: initiate, the polling loop, the
\* simulated confirmation and its settlement, with storage calls that succeed;
\* the timer fires, requests are answered and the clock advances
InitiateLive(ref) ==
  /\ transactions = {}
  /\ (MaxTime - now) * TickMs >= CALLBACK_DELAY_MS
  /\ Initiate(FullPayload.amount, "2547", "s1", "m1", ref)

InitLive ==
  /\ transactions = {}
  /\ ledger_entries = << >>
  /\ sacco_settings = [s \in Saccos |-> {}]
  /\ now = 0
  /\ call = [c \in Slots |-> IdleCall]
  /\ timers = {}
  /\ poll = IdlePoll
  /\ DEV_AUTOPAY_ON \in BOOLEAN
  /\ delivered = 0
  /\ outcome = [r \in Refs |-> [first |-> "none", ok |-> FALSE]]
  /\ client = IdleClient
  /\ ussd_pool = SeededPool
  /\ poolCall = [c \in Slots |-> IdlePoolCall]
  /\ poolCalls = 0
  /\ calc = NoCalc

NextLive ==
  \/ \E ref \in Refs : InitiateLive(ref)
  \/ \E ref \in Refs : ClientLoopStart(ref)
  \/ ClientStatusRead
  \/ ClientWait
  \/ ClientStatusUpdate
  \/ \E t \in timers : TimerFireSeq(t)
  \/ UpsertStep(1)
  \/ RulesStep(1)
  \/ GateStep(1)
  \/ InsertStep(1)
  \/ Tick

Fairness ==
  /\ WF_vars(\E ref \in Refs : ClientLoopStart(ref))
  /\ WF_vars(ClientStatusRead)
  /\ WF_vars(ClientWait)
  /\ WF_vars(ClientStatusUpdate)
  /\ WF_vars(\E t \in timers : TimerFireSeq(t))
  /\ WF_vars(UpsertStep(1))
  /\ WF_vars(RulesStep(1))
  /\ WF_vars(GateStep(1))
  /\ WF_vars(InsertStep(1))
  /\ WF_vars(Tick)

SpecLive == InitLive /\ [][NextLive]_vars /\ Fairness

\* every kind of request, one at a time: initiate and its simulated callback,
\* confirmations, fee quotes, status polls and code-pool requests
Quiet == NoneInFlight /\ PoolIdle /\ poll.pc = "idle"

InitiateAll          == Quiet /\ Initiate(FullPayload.amount, "2547", "s1", "m1", "X1")
TimerFireAll(t)      == Quiet /\ TimerFire(1, t)
DeliverAll(p)        == Quiet /\ Deliver(1, p)
QuoteStartAll(body)  == Quiet /\ QuoteStart(1, body)
StatusReadAll(r)     == Quiet /\ StatusRead(r)
\* one code-pool request in a run
AssignStartAll(body) == Quiet /\ poolCalls = 0 /\ AssignStart(1, body)
BindStartAll(body, code) == Quiet /\ poolCalls = 0 /\ BindStart(1, body, code)

\* the confirmations, the quote, and the owner and code of the pool requests
AllSettles == { FullPayload, [FullPayload EXCEPT !.success = FALSE] }
AllQuote   == [sacco_id |-> "s1", matatu_id |-> "m1", amount |-> FullPayload.amount]
AllTarget  == [level |-> "SACCO", sacco_id |-> "s1", matatu_id |-> NULL, cashier_id |-> NULL]
AllCode    == fullCode(DEFAULT_PREFIX, Pad3(ScenarioBase), ToStr(digitalRoot(Pad3(ScenarioBase))))

NextAll ==
  \/ InitiateAll
  \/ \E t \in timers : TimerFireAll(t)
  \/ \E p \in AllSettles : DeliverAll(p)
  \/ UpsertStep(1)
  \/ RulesStep(1)
  \/ GateStep(1)
  \/ InsertStep(1)
  \/ StorageError(1)
  \/ QuoteStartAll(AllQuote)
  \/ QuoteRulesStep(1)
  \/ QuoteGateStep(1)
  \/ \E r \in transactions : StatusReadAll(r)
  \/ StatusUpdate
  \/ AssignStartAll(AllTarget)
  \/ AssignSelect(1)
  \/ BindStartAll(AllTarget, AllCode)
  \/ BindSelect(1)
  \/ PoolUpdate(1)
  \/ Tick

SpecAll == Init /\ [][NextAll]_vars

\* ==================================================================== claims
Ledger == 1..Len(ledger_entries)
HasEntry(txid, type) ==
  \E i \in Ledger : ledger_entries[i].transaction_id = txid /\ ledger_entries[i].type = type

\* two ledger rows written for the same confirmation: same transaction, sacco, vehicle
SameConfirmation(i, j) ==
  /\ ledger_entries[i].transaction_id = ledger_entries[j].transaction_id
  /\ ledger_entries[i].sacco_id = ledger_entries[j].sacco_id
  /\ ledger_entries[i].matatu_id = ledger_entries[j].matatu_id

\* C1: after any number of sequential deliveries of the same success
\* confirmation the ledger holds one set of rows for the transaction, at most
\* one row per entry type.
C1_RedeliveryWritesOnce ==
  \A i, j \in Ledger :
     (SameConfirmation(i, j) /\ ledger_entries[i].type = ledger_entries[j].type) => i = j

\* C2: a call never writes its rows for a transaction whose rows were written,
\* for the same confirmation, after this call had started: of two overlapping
\* deliveries of one confirmation only one writes.
C2_ConcurrentWritesOnce ==
  [][ \A c \in Slots :
        (call[c].pc = "insert" /\ call'[c].pc = "done"
           /\ ledger_entries' # ledger_entries)
        => ~ \E i \in Ledger :
               /\ ledger_entries[i].transaction_id = call[c].upserted_id
               /\ ledger_entries[i].sacco_id = call[c].p.sacco_id
               /\ ledger_entries[i].matatu_id = call[c].p.matatu_id
               /\ ledger_entries[i].created_at > call[c].created_at ]_vars

\* C3: with confirmations settled one after the other, a vehicle has at most
\* one SACCO_FEE row per calendar day.
C3_DailyFeeOncePerVehicleDay ==
  \A i, j \in Ledger :
     ( /\ ledger_entries[i].type = "SACCO_FEE" /\ ledger_entries[j].type = "SACCO_FEE"
       /\ ledger_entries[i].matatu_id # NULL
       /\ ledger_entries[i].matatu_id = ledger_entries[j].matatu_id
       /\ DayOf(ledger_entries[i].created_at) = DayOf(ledger_entries[j].created_at) )
     => i = j

\* two different transactions of one vehicle settled on the same day, one fee row
C3_Witness ==
  /\ NoneInFlight
  /\ \E i, j, k \in Ledger :
       /\ ledger_entries[i].type = "FARE" /\ ledger_entries[j].type = "FARE"
       /\ ledger_entries[i].transaction_id # ledger_entries[j].transaction_id
       /\ ledger_entries[i].matatu_id = "m1" /\ ledger_entries[j].matatu_id = "m1"
       /\ ledger_entries[k].type = "SACCO_FEE" /\ ledger_entries[k].matatu_id = "m1"
       /\ DayOf(ledger_entries[i].created_at) = DayOf(ledger_entries[j].created_at)
       /\ DayOf(ledger_entries[k].created_at) = DayOf(ledger_entries[j].created_at)

\* C4: under concurrent settlement no two transactions both carry a SACCO_FEE
\* row for the same vehicle on the same day.
C4_ConcurrentDailyFeeOnce ==
  ~ \E i, j \in Ledger :
       /\ ledger_entries[i].transaction_id # ledger_entries[j].transaction_id
       /\ ledger_entries[i].type = "SACCO_FEE" /\ ledger_entries[j].type = "SACCO_FEE"
       /\ ledger_entries[i].matatu_id # NULL
       /\ ledger_entries[i].matatu_id = ledger_entries[j].matatu_id
       /\ DayOf(ledger_entries[i].created_at) = DayOf(ledger_entries[j].created_at)

PoolOk(c, op) ==
  poolCall[c].pc = "done" /\ poolCall[c].op = op /\ poolCall[c].result = "ok"

\* C5: two assign-next requests never both return the same base.
C5_AssignNextDistinct ==
  \A c, d \in Slots :
     (c # d /\ PoolOk(c, "assign") /\ PoolOk(d, "assign"))
     => poolCall[c].base # poolCall[d].base

\* C6: two bind-from-pool requests for the same code never both succeed.
C6_BindSpecificOnce ==
  \A c, d \in Slots :
     (c # d /\ PoolOk(c, "bind") /\ PoolOk(d, "bind"))
     => poolCall[c].base # poolCall[d].base

\* C7: whenever no settle call is in progress, every SUCCESS transaction has
\* its ledger rows (FARE and SERVICE_FEE at the least).
C7_AllOrNothing ==
  NoneInFlight =>
    \A r \in transactions :
       r.status = "SUCCESS" => HasEntry(r.id, "FARE") /\ HasEntry(r.id, "SERVICE_FEE")

\* C8: every ledger row belongs to a transaction whose status is SUCCESS.
C8_EntriesOnlyForSuccess ==
  \A i \in Ledger :
     \E r \in transactions :
        r.id = ledger_entries[i].transaction_id /\ r.status = "SUCCESS"

\* C9: a delivery with success = false ends at the answer of its upsert, with
\* the transaction FAILED when the upsert succeeded and the ledger untouched,
\* and it never waits for the policy, the gate or the insert.
C9_FailedStopsAfterUpsert ==
  /\ [](\A c \in Slots : call[c].pc \in {"rules", "gate", "insert"} => call[c].p.success)
  /\ [][ \A c \in Slots :
           (call[c].pc = "upsert" /\ ~call[c].p.success /\ call'[c] # call[c])
           => /\ call'[c].pc = "done"
              /\ ledger_entries' = ledger_entries
              /\ call'[c].result = "ok" =>
                   \E r \in transactions' :
                      /\ r.mpesa_checkout_id = call[c].p.checkout_id
                      /\ r.status = "FAILED" ]_vars

\* a failed delivery has been answered while the ledger held rows
C9_Witness ==
  /\ call[1] = Finished("ok")
  /\ ledger_entries # << >>
  /\ \E r \in transactions : r.status = "FAILED"

\* C10: a checkout id never has two transaction rows, row ids are unique, and
\* the upsert of a success delivery leaves the one row of its checkout id in
\* SUCCESS, adding a row only when there was none.
C10_OneRowPerReference ==
  /\ [](\A r, q \in transactions :
          (r.mpesa_checkout_id = q.mpesa_checkout_id \/ r.id = q.id) => r = q)
  /\ [][ \A c \in Slots :
           (call[c].pc = "upsert" /\ call'[c].pc = "rules")
           => LET ref == call[c].p.checkout_id
              IN  /\ \A r \in transactions' :
                        r.mpesa_checkout_id = ref => r.status = "SUCCESS"
                  /\ Cardinality(transactions') =
                       Cardinality(transactions) + (IF RowsOf(ref) = {} THEN 1 ELSE 0) ]_vars

\* the simulated callback of initiate has updated the row initiate created,
\* and a second reference has its own row
C10_Witness ==
  /\ Cardinality(transactions) = 2
  /\ \E r \in transactions : r.status = "SUCCESS" /\ r.mpesa_receipt = "R"

\* the ledger rows of one transaction, in insertion order
RowsOfTx(led, txid) ==
  LET Sel(e) == e.transaction_id = txid IN SelectSeq(led, Sel)

\* one complete set: FARE and SERVICE_FEE, and no entry type twice
OneCompleteSet(rows) ==
  /\ \E i \in 1..Len(rows) : rows[i].type = "FARE"
  /\ \E i \in 1..Len(rows) : rows[i].type = "SERVICE_FEE"
  /\ \A i, j \in 1..Len(rows) : rows[i].type = rows[j].type => i = j

C12_ValidationBeforeStorage ==
  /\ [](\A c \in Slots :
          InFlight(c) => /\ call[c].p.checkout_id # NULL
                         /\ call[c].p.amount # NOAMOUNT
                         /\ call[c].p.sacco_id # NULL)
  /\ [][ \A p \in EdgePayloads :
           DeliverSeq(p) =>
             IF p.checkout_id = NULL \/ p.amount = NOAMOUNT \/ p.sacco_id = NULL
               THEN /\ call'[1] = Finished("validation")
                    /\ transactions' = transactions
                    /\ ledger_entries' = ledger_entries
               ELSE call'[1].pc = "upsert" /\ call'[1].p = p ]_vars

\* a confirmation with amount 0 was settled, then one with a field left out
\* was rejected
C12_Witness ==
  /\ call[1] = Finished("validation")
  /\ \E r \in transactions : r.fare_amount_kes = 0 /\ r.status = "SUCCESS"
  /\ \E i \in Ledger : ledger_entries[i].type = "FARE" /\ ledger_entries[i].amount_kes = 0

\* b is the free entry with the numerically smallest base
IsSmallestFree(pool, b) ==
  /\ b \in DOMAIN pool /\ ~pool[b].allocated
  /\ \A o \in DOMAIN pool : ~pool[o].allocated => BaseNum(b) <= BaseNum(o)

\* the entry is allocated to the owner the request named, and to nobody else
OwnedBy(row, target) ==
  /\ row.allocated /\ row.level = target.assigned_type
  /\ row.sacco_id   = (IF target.assigned_type = "SACCO" THEN target.assigned_id ELSE NULL)
  /\ row.matatu_id  = (IF target.assigned_type = "MATATU" THEN target.assigned_id ELSE NULL)
  /\ row.cashier_id = (IF target.assigned_type = "CASHIER" THEN target.assigned_id ELSE NULL)

\* C13: with one request at a time, an assign-next that finds a free entry
\* picks the free entry with the smallest base, allocates that entry and no
\* other to the owner it was given, and returns prefix + base + checksum + '#'.
C13_AssignNextLowestFree ==
  [][ /\ ( /\ poolCall[1].pc = "select" /\ poolCall[1].op = "assign"
           /\ \E b \in DOMAIN ussd_pool : ~ussd_pool[b].allocated
           /\ poolCall'[1] # poolCall[1] /\ poolCall'[1].result # "storage" )
         => /\ poolCall'[1].pc = "update"
            /\ IsSmallestFree(ussd_pool, poolCall'[1].base)
      /\ ( /\ poolCall[1].pc = "update" /\ poolCall[1].op = "assign"
           /\ poolCall'[1].result = "ok" )
         => LET b == poolCall'[1].base
            IN  /\ IsSmallestFree(ussd_pool, b)
                /\ OwnedBy(ussd_pool'[b], poolCall[1].target)
                /\ \A o \in DOMAIN ussd_pool : o # b => ussd_pool'[o] = ussd_pool[o]
                /\ poolCall'[1].code =
                     DEFAULT_PREFIX \o b \o ussd_pool[b].checksum \o << "#" >> ]_vars

\* after the lowest base had been taken, assign-next returned the scenario base
C13_Witness ==
  /\ PoolOk(1, "assign")
  /\ poolCall[1].base = Pad3(ScenarioBase)
  /\ poolCall[1].code = << "*", "0", "0", "1", "*", "1", "1", "0", "2", "#" >>
  /\ \A b \in DOMAIN ussd_pool : ussd_pool[b].allocated

Exhausted(pool) == \A b \in DOMAIN pool : pool[b].allocated

\* C14: with assign-next requests only, one at a time, the base a request
\* returns is allocated and greater than every base allocated before it, so
\* the returned bases increase strictly; once no entry is free a request that
\* reaches its select is answered 'no free codes in pool', no request succeeds
\* and the pool stays as it is.
C14_AssignNextIncreasing ==
  /\ [](PoolOk(1, "assign") =>
          /\ poolCall[1].base \in DOMAIN ussd_pool
          /\ ussd_pool[poolCall[1].base].allocated
          /\ \A o \in DOMAIN ussd_pool :
                (ussd_pool[o].allocated /\ o # poolCall[1].base)
                => BaseNum(o) < BaseNum(poolCall[1].base))
  /\ [][ /\ ( /\ poolCall[1].pc = "select" /\ Exhausted(ussd_pool)
              /\ poolCall'[1] # poolCall[1] /\ poolCall'[1].result # "storage" )
             => poolCall'[1] = PoolDone("assign", "no free codes in pool", << >>, << >>)
         /\ Exhausted(ussd_pool)
             => /\ ussd_pool' = ussd_pool
                /\ poolCall'[1].result # "ok" \/ poolCall'[1] = poolCall[1] ]_vars

\* every entry was handed out and a further request met the empty pool
C14_Witness ==
  /\ Exhausted(ussd_pool)
  /\ poolCall[1] = PoolDone("assign", "no free codes in pool", << >>, << >>)
  /\ poolCalls = Cardinality(DOMAIN ussd_pool) + 1

\* request bodies that name an owner
OwnerInputs == { body \in TargetInputs : resolveTarget(body.level, body).ok }

\* codes that parse and whose fourth digit is not the digital root of the base
WrongDigitCodes ==
  { code \in CodeInputs :
      /\ parseUssdDigits(code).ok
      /\ parseUssdDigits(code).check # ToStr(digitalRoot(parseUssdDigits(code).base)) }

\* C15: a bind-from-pool request whose code parses and whose fourth digit is
\* not the digital root of its base is answered 'checksum mismatch' at once:
\* no select is sent and the pool is unchanged, whether the base is free,
\* allocated or not in the pool; a bind request that reaches its select or
\* its update carries the digital root of its base as its digit.
C15_ChecksumFirst ==
  /\ [](\A c \in Slots :
          (poolCall[c].op = "bind" /\ poolCall[c].pc \in {"select", "update"})
          => poolCall[c].check = ToStr(digitalRoot(poolCall[c].base)))
  /\ [][ \A body \in OwnerInputs, code \in WrongDigitCodes :
           (poolCalls' = poolCalls + 1 /\ BindStartSeq(body, code))
           => /\ poolCall'[1] = PoolDone("bind", "checksum mismatch",
                                         parseUssdDigits(code).base, << >>)
              /\ ussd_pool' = ussd_pool ]_vars

\* a wrong digit for an allocated base was answered with the mismatch
C15_Witness ==
  /\ poolCall[1] = PoolDone("bind", "checksum mismatch", Pad3(1), << >>)
  /\ ussd_pool[Pad3(1)].allocated

\* C16: a bind-from-pool request whose digit is right and whose base has no
\* row is answered 'base not in pool' when its select answers; no update is
\* ever sent for such a base, the pool is unchanged and holds the seeded bases
\* only.
C16_UnknownBase ==
  /\ [](DOMAIN ussd_pool = PoolBases)
  /\ [](\A c \in Slots : poolCall[c].pc = "update" => poolCall[c].base \in DOMAIN ussd_pool)
  /\ [][ \A c \in Slots :
           ( /\ poolCall[c].pc = "select" /\ poolCall[c].op = "bind"
             /\ poolCall[c].base \notin DOMAIN ussd_pool
             /\ poolCall'[c] # poolCall[c] /\ poolCall'[c].result # "storage" )
           => /\ poolCall'[c] = PoolDone("bind", "base not in pool", poolCall[c].base, << >>)
              /\ ussd_pool' = ussd_pool ]_vars

\* *001*0000# was answered 'base not in pool' while the pool had allocations
C16_Witness ==
  /\ poolCall[1] = PoolDone("bind", "base not in pool", Pad3(0), << >>)
  /\ \E b \in DOMAIN ussd_pool : ussd_pool[b].allocated

\* C17: with one request at a time, a bind-from-pool request with the right
\* digit for a free entry goes on to its update, which allocates the entry to
\* the owner of the request and returns the code; a bind request for an
\* allocated entry is answered 'already allocated' and the pool, the entry's
\* owner and allocation time included, is unchanged.
C17_BindOnce ==
  /\ [](\A c \in Slots :
          (poolCall[c].op = "bind" /\ poolCall[c].pc = "update")
          => ~ussd_pool[poolCall[c].base].allocated)
  /\ [][ \A c \in Slots :
           LET b == poolCall[c].base
               answered == /\ poolCall[c].pc = "select" /\ poolCall[c].op = "bind"
                           /\ b \in DOMAIN ussd_pool
                           /\ poolCall'[c] # poolCall[c]
                           /\ poolCall'[c].result # "storage"
           IN  /\ (answered /\ ~ussd_pool[b].allocated)
                  => poolCall'[c] = [poolCall[c] EXCEPT !.pc = "update"]
               /\ (answered /\ ussd_pool[b].allocated)
                  => /\ poolCall'[c] = PoolDone("bind", "already allocated", b, << >>)
                     /\ ussd_pool' = ussd_pool
               /\ ( /\ poolCall[c].pc = "update" /\ poolCall[c].op = "bind"
                    /\ poolCall'[c].result = "ok" )
                  => /\ OwnedBy(ussd_pool'[b], poolCall[c].target)
                     /\ ussd_pool'[b].allocated_at = now
                     /\ \A o \in DOMAIN ussd_pool : o # b => ussd_pool'[o] = ussd_pool[o]
                     /\ poolCall'[c].code = DEFAULT_PREFIX \o b \o poolCall[c].check
                                               \o << "#" >> ]_vars

\* *001*1102# had been bound to the vehicle; a later bind of it, after more
\* time had passed, was answered 'already allocated' and left the entry as bound
C17_Witness ==
  /\ poolCall[1] = PoolDone("bind", "already allocated", Pad3(ScenarioBase), << >>)
  /\ ussd_pool[Pad3(ScenarioBase)].allocated
  /\ ussd_pool[Pad3(ScenarioBase)].checksum = << "2" >>
  /\ ussd_pool[Pad3(ScenarioBase)].matatu_id = "m1"
  /\ ussd_pool[Pad3(ScenarioBase)].allocated_at < now
  /\ ~ussd_pool[Pad3(1)].allocated

\* the owner ids a row carries
OwnerIds(row) ==
  { [type |-> "SACCO", id |-> row.sacco_id], [type |-> "MATATU", id |-> row.matatu_id],
    [type |-> "CASHIER", id |-> row.cashier_id] }

\* C18: in every state of the pool, under overlapping requests too, an
\* allocated entry has a level and exactly one owner id, the one of its level,
\* and every entry's checksum is the digital root of its base.
C18_OwnerAndChecksum ==
  \A b \in DOMAIN ussd_pool :
     /\ ussd_pool[b].checksum = ToStr(digitalRoot(b))
     /\ ussd_pool[b].allocated =>
          /\ ussd_pool[b].level \in {"SACCO", "MATATU", "CASHIER"}
          /\ \A o \in OwnerIds(ussd_pool[b]) :
                (o.id # NULL) <=> (o.type = ussd_pool[b].level)

\* one vehicle holds two codes
C18_Witness ==
  \E a, b \in DOMAIN ussd_pool :
     /\ a # b
     /\ ussd_pool[a].allocated /\ ussd_pool[b].allocated
     /\ ussd_pool[a].level = "MATATU" /\ ussd_pool[b].level = "MATATU"
     /\ ussd_pool[a].matatu_id = "m1" /\ ussd_pool[b].matatu_id = "m1"

\* C19: every step of a pool request, overlapping requests included, keeps
\* the set of entries and every entry's checksum; the pool changes only in the
\* update step of a request that then answers with the code, and only in the
\* entry of that request's base; no other step, hence no request ending in an
\* error, changes the pool.
C19_PoolFrame ==
  [][ /\ DOMAIN ussd_pool' = DOMAIN ussd_pool
      /\ \A b \in DOMAIN ussd_pool : ussd_pool'[b].checksum = ussd_pool[b].checksum
      /\ ussd_pool' # ussd_pool
         => \E c \in Slots :
              /\ poolCall[c].pc = "update" /\ poolCall'[c].result = "ok"
              /\ \A o \in DOMAIN ussd_pool :
                    o # poolCall[c].base => ussd_pool'[o] = ussd_pool[o]
      /\ \A c \in Slots :
           (poolCall'[c] # poolCall[c] /\ poolCall'[c].result # "ok")
           => ussd_pool' = ussd_pool ]_vars

\* one request bound its code and left the other entry free, another was
\* answered with an error
C19_Witness ==
  /\ \E c, d \in Slots :
       /\ PoolOk(c, "bind") /\ ussd_pool[poolCall[c].base].allocated
       /\ poolCall[d].pc = "done" /\ poolCall[d].result \notin {"ok", "storage"}
  /\ \E b \in DOMAIN ussd_pool : ussd_pool[b] = FreeRow(b)

RECURSIVE CrossSum(_)
\* the sum of the decimal digits of a natural number
CrossSum(n) == IF n < 10 THEN n ELSE (n % 10) + CrossSum(n \div 10)

RECURSIVE IteratedCrossSum(_)
IteratedCrossSum(n) == IF n < 10 THEN n ELSE IteratedCrossSum(CrossSum(n))

\* C20: for every base 001 .. 999, each call of digitalRoot returns one digit
\* in 1..9, the iterated sum of the decimal digits of the base, which is
\* 1 + ((n - 1) mod 9) for the number n the base denotes, and a second call
\* returns what the first returned.
C20_DigitalRoot ==
  calc.calls > 0 =>
    /\ calc.out \in 1..9
    /\ calc.out = IteratedCrossSum(BaseNum(calc.arg))
    /\ calc.out = 1 + ((BaseNum(calc.arg) - 1) % 9)
    /\ calc.calls > 1 => calc.prev = calc.out

\* 199 -> 19 -> 10 -> 1, computed twice
C20_Witness ==
  /\ calc.arg = << "1", "9", "9" >>
  /\ calc.calls = 2
  /\ calc.out = 1 /\ calc.prev = 1

\* C21: for every base 001 .. 999, the code fullCode renders with the default
\* prefix and the digital root of the base, dialled with or without its
\* trailing '#', is parsed into that base and that digit.
C21_RoundTrip ==
  calc.calls = 2 =>
    calc.out = [ok |-> TRUE, base |-> calc.arg, check |-> ToStr(digitalRoot(calc.arg))]

\* *001*1102 dialled without '#' was parsed into base 110, digit 2
C21_Witness ==
  /\ calc.calls = 2
  /\ calc.prev = << "*", "0", "0", "1", "*", "1", "1", "0", "2" >>
  /\ calc.out = [ok |-> TRUE, base |-> << "1", "1", "0" >>, check |-> << "2" >>]


\* the parts of a result, by type
TypesOf(items) == [i \in 1..Len(items) |-> items[i].type]
PartOrder == << "FARE", "SERVICE_FEE", "SACCO_FEE", "SAVINGS", "LOAN_REPAY" >>
RankOf(t) == CHOOSE k \in 1..Len(PartOrder) : PartOrder[k] = t
SplitsDone == calc.fn = "computeSplits" /\ calc.calls = 1

ItemsOfType(items, t) == { i \in 1..Len(items) : items[i].type = t }

\* C23: every result of computeSplits holds a SERVICE_FEE item whose amount is
\* the policy's flat fee rounded to 2 decimals, also when that fee is zero.
C23_ServiceFeeAlways ==
  SplitsDone =>
    \E i \in 1..Len(calc.out) :
      /\ ItemsOfType(calc.out, "SERVICE_FEE") = { i }
      /\ calc.out[i].amount_kes = round2Cents(calc.arg.rules.fare_fee_flat_kes)

C23_Witness ==
  /\ SplitsDone
  /\ calc.arg.rules.fare_fee_flat_kes = 0
  /\ calc.arg.amount = 40000
  /\ calc.out[2] = Item("SERVICE_FEE", 0)

\* C24: the daily-fee item is in the result exactly when takeDailyFee is true
\* and the policy's daily fee, rounded to 2 decimals, is above zero; its amount
\* is that rounded fee.
C24_DailyFeeIff ==
  SplitsDone =>
    LET daily == round2Cents(calc.arg.rules.sacco_daily_fee_kes)
        at    == ItemsOfType(calc.out, "SACCO_FEE")
    IN  /\ (at # {}) <=> (calc.arg.takeDailyFee /\ daily > 0)
        /\ \A i \in at : calc.out[i].amount_kes = daily

C24_Witness ==
  /\ SplitsDone
  /\ calc.arg.takeDailyFee
  /\ calc.arg.rules = DefaultRules
  /\ calc.out[3] = Item("SACCO_FEE", 5000)

\* amount * percent / 100 rounded half-up to whole cents, from an amount in
\* mills and a percentage in hundredths of a percent
HalfUpPercentOfAmount(pct, amount) == (pct * amount + 50000) \div 100000

PercentItemOk(t, pct) ==
  LET want == HalfUpPercentOfAmount(pct, calc.arg.amount)
      at   == ItemsOfType(calc.out, t)
  IN  /\ (at # {}) <=> (want > 0)
      /\ \A i \in at : calc.out[i].amount_kes = want

\* C25: the SAVINGS item is amount * savings_percent / 100 rounded half-up to
\* 2 decimals, included exactly when that value is above zero, and likewise
\* LOAN_REPAY with loan_repay_percent; both are taken from the given amount,
\* not from the rounded fare.
C25_PercentOfGivenAmount ==
  SplitsDone =>
    /\ PercentItemOk("SAVINGS", calc.arg.rules.savings_percent)
    /\ PercentItemOk("LOAN_REPAY", calc.arg.rules.loan_repay_percent)

RECURSIVE SumAmounts(_)
SumAmounts(items) ==
  IF items = << >> THEN 0 ELSE Head(items).amount_kes + SumAmounts(Tail(items))

\* the components of a split, each taken once: service fee, daily fee if
\* charged, savings and loan repayment, in cents
ComponentsBesideFare ==
  LET rules == calc.arg.rules
      fare  == round2(calc.arg.amount)
  IN  round2Cents(rules.fare_fee_flat_kes)
      + (IF calc.arg.takeDailyFee THEN round2Cents(rules.sacco_daily_fee_kes) ELSE 0)
      + round2Percent(rules.savings_percent, fare)
      + round2Percent(rules.loan_repay_percent, fare)

\* C26 as stated: the sum of the returned amounts equals the given amount
\* plus service fee, daily fee if charged, savings and loan repayment
\* (compared in mills, the unit of the given amount).
C26_SumOfGivenAmount ==
  SplitsDone =>
    10 * SumAmounts(calc.out) = calc.arg.amount + 10 * ComponentsBesideFare

\* C26 amended: the sum of the returned amounts equals FARE, the given amount
\* rounded to 2 decimals, plus service fee, daily fee if charged, savings and
\* loan repayment, each counted exactly once.
C26_SumOfParts ==
  SplitsDone =>
    SumAmounts(calc.out) = round2(calc.arg.amount) + ComponentsBesideFare

C26_Witness ==
  /\ SplitsDone
  /\ calc.arg.amount = 984
  /\ calc.arg.takeDailyFee
  /\ Len(calc.out) = 5
  /\ SumAmounts(calc.out) = 98 + 250 + 5000 + 29 + 5

ScenarioPolicy ==
  [fare_fee_flat_kes |-> 250, savings_percent |-> 500,
   sacco_daily_fee_kes |-> 5000, loan_repay_percent |-> 0]

\* C27: for amount 100 under the policy flat fee 2.5, savings 5%, daily fee
\* 50, loan repayment 0% the result is exactly FARE 100.00, SERVICE_FEE 2.50,
\* daily fee 50.00, SAVINGS 5.00 when the daily fee is to be charged, and
\* exactly FARE 100.00, SERVICE_FEE 2.50, SAVINGS 5.00 when it is not; there
\* is no LOAN_REPAY item in either.
C27_ScenarioSplits ==
  (SplitsDone /\ calc.arg.amount = 100000 /\ calc.arg.rules = ScenarioPolicy) =>
    calc.out =
      IF calc.arg.takeDailyFee
      THEN << Item("FARE", 10000), Item("SERVICE_FEE", 250),
              Item("SACCO_FEE", 5000), Item("SAVINGS", 500) >>
      ELSE << Item("FARE", 10000), Item("SERVICE_FEE", 250), Item("SAVINGS", 500) >>

C27_Witness ==
  /\ SplitsDone /\ calc.arg.amount = 100000 /\ calc.arg.rules = ScenarioPolicy
  /\ calc.arg.takeDailyFee
  /\ Len(calc.out) = 4
  /\ calc.out[4] = Item("SAVINGS", 500)

\* the default policy as the contract states it: 2.50, 5.00 %, 50.00, 0.00 %
ContractDefaults ==
  [fare_fee_flat_kes |-> 250, savings_percent |-> 500,
   sacco_daily_fee_kes |-> 5000, loan_repay_percent |-> 0]

PolicyMissing(c) == sacco_settings[call[c].p.sacco_id] = {}

\* C28: when the tenant has no policy row, the policy lookup of settle and of
\* the fee quote answers with the default policy 2.50 / 5.00 % / 50.00 /
\* 0.00 % and the request goes on with it: to the gate, or straight to the
\* splits computed under the defaults; the request ends in an error only when
\* a storage call fails.
C28_DefaultsWhenMissing ==
  [][ \A c \in Slots :
          ( /\ call[c].pc \in {"rules", "quoteRules"}
            /\ call'[c] # call[c]
            /\ PolicyMissing(c) ) =>
            LET p      == call[c].p
                splits == computeSplits(p.amount, ContractDefaults, TRUE)
            IN  \/ /\ call'[c].pc \in {"gate", "quoteGate"}
                   /\ call'[c].rules = ContractDefaults
                \/ /\ call'[c].pc = "insert"
                   /\ call'[c].entries = EntriesOf(call[c].upserted_id, p, splits, now)
                \/ /\ call[c].pc = "quoteRules"
                   /\ call'[c].result = "ok"
                   /\ call'[c].splits = splits
                \/ /\ call'[c].result = "storage"
                   /\ ledger_entries' = ledger_entries ]_vars

C28_Witness ==
  /\ sacco_settings["s1"] = {}
  /\ call[1].result = "ok"
  /\ call[1].splits = << Item("FARE", 4000), Item("SERVICE_FEE", 250),
                         Item("SAVINGS", 200) >>
  /\ \E i \in 1..Len(ledger_entries) :
       /\ ledger_entries[i].type = "SACCO_FEE"
       /\ ledger_entries[i].amount_kes = 5000

\* C29: a confirmation or a quote without a vehicle never has the gate query
\* in flight, and its splits are computed with the gate's answer false (the
\* daily fee is still to be charged), whatever the ledger holds.
C29_NoVehicleNoGateQuery ==
  /\ [](\A c \in Slots :
          call[c].pc \in {"gate", "quoteGate"} => call[c].p.matatu_id # NULL)
  /\ [][ \A c \in Slots :
          ( /\ call[c].pc \in {"rules", "quoteRules"}
            /\ call[c].p.matatu_id = NULL
            /\ call'[c] # call[c]
            /\ call'[c].result # "storage" ) =>
            LET p      == call[c].p
                splits == computeSplits(p.amount, getRuleset(p.sacco_id), TRUE)
            IN  IF call[c].pc = "rules"
                  THEN /\ call'[c].pc = "insert"
                       /\ call'[c].entries = EntriesOf(call[c].upserted_id, p, splits, now)
                  ELSE /\ call'[c].result = "ok"
                       /\ call'[c].splits = splits ]_vars

C29_Witness ==
  \E i, j \in 1..Len(ledger_entries) :
    /\ i < j
    /\ ledger_entries[i].type = "SACCO_FEE" /\ ledger_entries[j].type = "SACCO_FEE"
    /\ ledger_entries[i].matatu_id = NULL /\ ledger_entries[j].matatu_id = NULL
    /\ DayOf(ledger_entries[i].created_at) = DayOf(ledger_entries[j].created_at)
    /\ ledger_entries[i].transaction_id # ledger_entries[j].transaction_id

\* a daily-fee row of the vehicle, linked to a SUCCESS transaction, created
\* within the day that starts at `today`
ChargedWithinDay(matatu_id, today) ==
  \E i \in 1..Len(ledger_entries) :
    /\ ledger_entries[i].matatu_id = matatu_id
    /\ ledger_entries[i].type = "SACCO_FEE"
    /\ \E r \in transactions :
         r.id = ledger_entries[i].transaction_id /\ r.status = "SUCCESS"
    /\ today <= ledger_entries[i].created_at
    /\ ledger_entries[i].created_at < endOfDay(today)

\* C30: the gate answers true exactly when the ledger holds a daily-fee row of
\* that vehicle, linked to a SUCCESS transaction, created at or after the
\* start and before the end of the day; rows of other vehicles, types or days
\* and rows linked to a transaction that is not SUCCESS do not count.
C30_GateIffChargedWithinDay ==
  [][ \A c \in Slots :
        ( /\ call[c].pc \in {"gate", "quoteGate"}
          /\ call'[c] # call[c]
          /\ call'[c].result # "storage" ) =>
          LET p      == call[c].p
              splits == computeSplits(p.amount, call[c].rules,
                                      ~ChargedWithinDay(p.matatu_id, call[c].today))
          IN  IF call[c].pc = "gate"
                THEN call'[c].entries = EntriesOf(call[c].upserted_id, p, splits, now)
                ELSE call'[c].splits = splits ]_vars

\* C31: ledger entries are append-only: every step of every operation
\* (initiate, settle, quote, status query, code-pool requests) leaves each
\* existing ledger row in place and unchanged; rows are only added.
C31_LedgerAppendOnly ==
  [][ /\ Len(ledger_entries') >= Len(ledger_entries)
      /\ SubSeq(ledger_entries', 1, Len(ledger_entries)) = ledger_entries ]_vars

C31_Witness ==
  /\ Len(ledger_entries) = 8
  /\ \E r \in transactions : r.status = "FAILED" /\ HasEntry(r.id, "FARE")
  /\ poolCalls = 1
  /\ call[1].result = "ok" /\ call[1].splits # << >>

Stored == << transactions, ledger_entries, sacco_settings, ussd_pool >>

QuoteStep(c) ==
  /\ call'[c] # call[c]
  /\ call[c].pc \in {"quoteRules", "quoteGate"} \/ call'[c].pc = "quoteRules"

QuoteAnswered(c) == call[c].pc = "done" /\ call[c].result = "ok"

\* C32 as stated: a quote step leaves transactions, ledger entries, policies
\* and the code pool unchanged, and two quotes with the same amount, tenant and
\* vehicle over the same stored state answer the same list.
C32_QuoteSameStoreSameList ==
  /\ [][ \A c \in Slots : QuoteStep(c) => UNCHANGED Stored ]_vars
  /\ []( (QuoteAnswered(1) /\ QuoteAnswered(2) /\ call[1].p = call[2].p)
           => call[1].splits = call[2].splits )

\* C32 amended: a quote step leaves transactions, ledger entries, policies and
\* the code pool unchanged, and two quotes with the same amount, tenant and
\* vehicle over the same stored state that ask about the same day answer the
\* same list.
C32_QuoteSameDaySameList ==
  /\ [][ \A c \in Slots : QuoteStep(c) => UNCHANGED Stored ]_vars
  /\ []( ( /\ QuoteAnswered(1) /\ QuoteAnswered(2)
           /\ call[1].p = call[2].p
           /\ call[1].today = call[2].today )
           => call[1].splits = call[2].splits )

C32_Witness ==
  /\ QuoteAnswered(1) /\ QuoteAnswered(2)
  /\ call[1].p = call[2].p
  /\ call[1].p.matatu_id = "m1"
  /\ call[1].today = 0 /\ call[2].today = 0
  /\ now = TicksPerDay
  /\ ledger_entries # << >>
  /\ call[1].splits = << Item("FARE", 4000), Item("SERVICE_FEE", 250),
                         Item("SAVINGS", 200) >>

\* the stored row holds what a confirmation with payload p writes, whenever
\* it was written
WrittenBy(r, p) == [r EXCEPT !.id = 0, !.created_at = 0] = baseTx(p, 0)

\* C33: when a confirmation is delivered again for a reference whose settled
\* row already holds that confirmation's values, the upsert leaves every
\* stored field of the row (status, amount, tenant, vehicle, receipt,
\* created_at) as it was.
C33_RedeliverySameRow ==
  [][ \A c \in Slots :
        ( /\ call[c].pc = "upsert"
          /\ call'[c] # call[c]
          /\ call'[c].result # "storage" ) =>
          \A r \in RowsOf(call[c].p.checkout_id) :
            WrittenBy(r, call[c].p) => r \in transactions' ]_vars

\* C34: a transaction whose status is SUCCESS keeps that status in every later
\* state: no delivery for its reference and no other operation sets it to
\* FAILED, PENDING or TIMEOUT.
C34_SuccessIsFinal ==
  [][ \A r \in transactions : r.status = "SUCCESS" =>
        \A q \in transactions' : q.id = r.id => q.status = "SUCCESS" ]_vars

SameOwner(row, later) ==
  /\ later.level = row.level
  /\ later.sacco_id = row.sacco_id
  /\ later.matatu_id = row.matatu_id
  /\ later.cashier_id = row.cashier_id

\* C35: a pool entry that is allocated stays allocated and keeps its owner in
\* every later state, under any order or overlap of assign-next and
\* bind-from-pool requests.
C35_AllocationMonotone ==
  [][ \A b \in DOMAIN ussd_pool : ussd_pool[b].allocated =>
        /\ ussd_pool'[b].allocated
        /\ SameOwner(ussd_pool[b], ussd_pool'[b]) ]_vars

RowsOn(matatu_id, day, type) ==
  { i \in Ledger : /\ ledger_entries[i].matatu_id = matatu_id
                   /\ ledger_entries[i].type = type
                   /\ DayOf(ledger_entries[i].created_at) = day }

\* C36: with one settlement at a time and a daily fee above zero, a vehicle
\* that has a successful settlement on a day has exactly one daily-fee entry
\* of that day: the first settlement of the day writes it, whatever earlier
\* days hold, and later ones do not write another.
C36_DailyFeeEachDay ==
  \A s \in Saccos, m \in Matatus, d \in 0..DayOf(MaxTime) :
    ( /\ getRuleset(s).sacco_daily_fee_kes > 0
      /\ RowsOn(m, d, "FARE") # {} )
    => Cardinality(RowsOn(m, d, "SACCO_FEE")) = 1

DailyFeeRows(entries) ==
  { i \in 1..Len(entries) : entries[i].type = "SACCO_FEE" }

\* C37: a successful confirmation without a vehicle gets its split with the
\* daily fee to be charged, on every payment: the rows it is about to insert
\* hold one daily-fee row of its own transaction exactly when the policy's
\* daily fee is above zero, and the insert appends those rows, whatever
\* daily-fee rows the ledger already holds.
C37_NoVehicleFeeEachPayment ==
  [][ \A c \in Slots :
        /\ ( /\ call[c].pc = "rules" /\ call[c].p.matatu_id = NULL
             /\ call'[c].pc = "insert" ) =>
             LET fee  == round2Cents(getRuleset(call[c].p.sacco_id).sacco_daily_fee_kes)
                 rows == DailyFeeRows(call'[c].entries)
             IN  /\ Cardinality(rows) = (IF fee > 0 THEN 1 ELSE 0)
                 /\ \A i \in rows :
                      /\ call'[c].entries[i].amount_kes = fee
                      /\ call'[c].entries[i].transaction_id = call[c].upserted_id
                      /\ call'[c].entries[i].matatu_id = NULL
        /\ ( /\ call[c].pc = "insert" /\ call[c].p.matatu_id = NULL
             /\ call'[c].result = "ok" ) =>
             ledger_entries' = ledger_entries \o call[c].entries ]_vars

C37_Witness ==
  /\ NoneInFlight
  /\ Cardinality(RowsOn(NULL, 0, "FARE")) = 2
  /\ Cardinality(RowsOn(NULL, 0, "SACCO_FEE")) = 2
  /\ Cardinality({ ledger_entries[i].transaction_id : i \in RowsOn(NULL, 0, "SACCO_FEE") }) = 2

\* C38: a step of the status query changes no transaction and no ledger
\* entry, so a transaction's status becomes SUCCESS only through a settlement.
C38_StatusReadOnly ==
  [][ poll' # poll =>
        /\ transactions' = transactions
        /\ ledger_entries' = ledger_entries ]_vars

\* C39: for every ledger row of type SERVICE_FEE the transaction it belongs to
\* records the same amount as its service fee, and for every FARE row the
\* transaction records the same amount as its fare.
C39_SnapshotMatchesLedger ==
  \A i \in Ledger : \A r \in transactions :
    r.id = ledger_entries[i].transaction_id =>
      /\ ledger_entries[i].type = "SERVICE_FEE" =>
           r.service_fee_kes = ledger_entries[i].amount_kes
      /\ ledger_entries[i].type = "FARE" =>
           r.fare_amount_kes = ledger_entries[i].amount_kes

Pending(ref)   == \E r \in RowsOf(ref) : r.status = "PENDING"
Finalized(ref) == \E r \in RowsOf(ref) : r.status \in {"SUCCESS", "FAILED", "TIMEOUT"}

====
